---- MODULE Spec2Model ----
(***************************************************************************)
(* passtider: walks the booking wizard of bokapass.nemoq.se for each       *)
(* configured region and reports the available passport appointment times. *)
(* The model follows src/passtider/__init__.py: human_readable,            *)
(* parse_available_times, do_post and main.                                *)
(***************************************************************************)
EXTENDS Integers, Sequences, FiniteSets, TLC

VARIABLES
    pc,        \* where main is: "loop", "get", "post", "parse", "done", "crashed"
    ri,        \* index into regions of the region being processed
    step,      \* index of the next wizard POST of the region (1..4)
    client,    \* id of the session of the running with-block, 0 when none
    nsess,     \* number of sessions created so far
    open,      \* ids of the sessions that are created and not closed
    reqs,      \* every request issued, in order
    call,      \* the last do_post call of the region: response and outcome
    result,    \* the body returned by the fourth do_post
    out,       \* what main printed, in order
    escaped,   \* the exception that left main, None when none
    ret,       \* main's return value, None when it did not return
    html,      \* input of a direct parse_available_times call
    now,       \* datetime.now() of a direct parse_available_times call
    parsed     \* outcome of a direct parse_available_times call

vars == <<pc, ri, step, client, nsess, open, reqs, call, result, out,
          escaped, ret, html, now, parsed>>

None == "None"

----------------------------------------------------------------------------
(* Text helpers.                                                           *)

\* ', '.join(parts)
RECURSIVE Join(_)
Join(parts) ==
    IF Len(parts) = 0 THEN ""
    ELSE IF Len(parts) = 1 THEN parts[1]
    ELSE parts[1] \o ", " \o Join(Tail(parts))

\* seq[:-1]
DropLast(seq) == SubSeq(seq, 1, Len(seq) - 1)

----------------------------------------------------------------------------
(* human_readable                                                          *)

attrs == <<"years", "months", "days">>

attrs_sv ==
    [w \in {"years", "year", "months", "month", "days", "day"} |->
        CASE w = "years" -> "år"
          [] w = "year" -> "år"
          [] w = "months" -> "månader"
          [] w = "month" -> "månad"
          [] w = "days" -> "dagar"
          [] w = "day" -> "dag"]

\* attr[:-1] for the three attribute names
Singular(attr) ==
    CASE attr = "years" -> "year"
      [] attr = "months" -> "month"
      [] attr = "days" -> "day"

\* word = attr if value > 1 else attr[:-1]
Word(attr, value) == IF value > 1 THEN attr ELSE Singular(attr)

RECURSIVE hr_loop(_, _)
hr_loop(delta, i) ==
    IF i > Len(attrs) THEN <<>>
    ELSE LET attr == attrs[i]
             value == delta[attr]
         IN  IF value = 0 THEN hr_loop(delta, i + 1)
             ELSE <<ToString(value) \o " " \o attrs_sv[Word(attr, value)]>>
                      \o hr_loop(delta, i + 1)

human_readable(delta) == hr_loop(delta, 1)

\* lines 100-104; until[0] of an empty list raises IndexError
UntilText(until) ==
    IF Len(until) > 1
    THEN [exc |-> None,
          text |-> Join(DropLast(until)) \o " och " \o until[Len(until)]]
    ELSE IF Len(until) = 1
    THEN [exc |-> None, text |-> until[1]]
    ELSE [exc |-> "IndexError", text |-> None]

\* lines 106-115
Icon(diff) ==
    IF diff.years > 0 THEN ":angry_face:"
    ELSE IF diff.months > 0 THEN ":weary_face:"
    ELSE IF diff.days > 25 THEN ":slightly_smiling_face:"
    ELSE IF diff.days > 15 THEN ":beaming_face_with_smiling_eyes:"
    ELSE ":star-struck:"

----------------------------------------------------------------------------
(* Calendar arithmetic of datetime, as used by strptime and relativedelta. *)
(* A datetime is [year, month, day, hour, minute, second]; microseconds    *)
(* are left out.                                                           *)

IsLeap(y) == y % 4 = 0 /\ (y % 100 # 0 \/ y % 400 = 0)

DaysInMonth(y, m) ==
    IF m = 2 THEN (IF IsLeap(y) THEN 29 ELSE 28)
    ELSE IF m \in {4, 6, 9, 11} THEN 30
    ELSE 31

DaysBeforeYear(y) ==
    LET p == y - 1 IN p * 365 + (p \div 4) - (p \div 100) + (p \div 400)

RECURSIVE DaysBeforeMonth(_, _)
DaysBeforeMonth(y, m) ==
    IF m <= 1 THEN 0 ELSE DaysBeforeMonth(y, m - 1) + DaysInMonth(y, m - 1)

ToOrdinal(dt) ==
    DaysBeforeYear(dt.year) + DaysBeforeMonth(dt.year, dt.month) + dt.day

\* Seconds since 2000-01-01 00:00:00: datetimes are compared and subtracted
\* through it (counted from year 1 the number does not fit TLC's integers).
ToSeconds(dt) ==
    (ToOrdinal(dt) - DaysBeforeYear(2000) - 1) * 86400
        + dt.hour * 3600 + dt.minute * 60 + dt.second

\* datetime's <
Before(a, b) == ToSeconds(a) < ToSeconds(b)

----------------------------------------------------------------------------
(* datetime.strptime(first_raw, '%Y-%m-%d %H:%M'), lines 76-79.  A string  *)
(* to parse is a tuple of characters.  The directives match as strptime's  *)
(* regular expression does: %Y four digits, the others one or two digits   *)
(* within the field's range, a blank of the format one or more blanks, and *)
(* nothing may remain after %M.                                            *)

DigitVal ==
    [c \in {"0", "1", "2", "3", "4", "5", "6", "7", "8", "9"} |->
        CASE c = "0" -> 0 [] c = "1" -> 1 [] c = "2" -> 2 [] c = "3" -> 3
          [] c = "4" -> 4 [] c = "5" -> 5 [] c = "6" -> 6 [] c = "7" -> 7
          [] c = "8" -> 8 [] c = "9" -> 9]

IsDigit(c) == c \in DOMAIN DigitVal

\* number of digits of s from position i on, at most max
RECURSIVE DigitRun(_, _, _)
DigitRun(s, i, max) ==
    IF max = 0 \/ i > Len(s) \/ ~IsDigit(s[i]) THEN 0
    ELSE 1 + DigitRun(s, i + 1, max - 1)

\* number of blanks of s from position i on
RECURSIVE BlankRun(_, _)
BlankRun(s, i) ==
    IF i > Len(s) \/ s[i] # " " THEN 0 ELSE 1 + BlankRun(s, i + 1)

\* value of the n digits of s from position i on
RECURSIVE Number(_, _, _)
Number(s, i, n) ==
    IF n = 0 THEN 0
    ELSE Number(s, i, n - 1) * 10 + DigitVal[s[i + n - 1]]

Lit(s, i, c) == i <= Len(s) /\ s[i] = c

ValueError == [exc |-> "ValueError"]

strptime(s) ==
    LET nY == DigitRun(s, 1, 4)
        im == 1 + nY + 1
        nm == DigitRun(s, im, 2)
        id == im + nm + 1
        nd == DigitRun(s, id, 2)
        nb == BlankRun(s, id + nd)
        iH == id + nd + nb
        nH == DigitRun(s, iH, 2)
        iM == iH + nH + 1
        nM == DigitRun(s, iM, 2)
    IN  IF /\ nY = 4 /\ Lit(s, 1 + nY, "-")
           /\ nm >= 1 /\ Lit(s, im + nm, "-")
           /\ nd >= 1 /\ nb >= 1
           /\ nH >= 1 /\ Lit(s, iH + nH, ":")
           /\ nM >= 1 /\ iM + nM = Len(s) + 1
        THEN LET dt == [year |-> Number(s, 1, nY), month |-> Number(s, im, nm),
                        day |-> Number(s, id, nd), hour |-> Number(s, iH, nH),
                        minute |-> Number(s, iM, nM), second |-> 0]
             IN  IF /\ dt.month \in 1..12 /\ dt.day >= 1
                    /\ dt.hour \in 0..23 /\ dt.minute \in 0..59
                    /\ dt.year >= 1
                    /\ dt.day <= DaysInMonth(dt.year, dt.month)
                 THEN [exc |-> None, value |-> dt]
                 ELSE ValueError
        ELSE ValueError

----------------------------------------------------------------------------
(* relativedelta(dt1, dt2) of dateutil, called at line 98.                 *)

Sign(x) == IF x < 0 THEN -1 ELSE 1

\* divmod(x * s, d) scaled back by the sign s, as in relativedelta._fix
TruncDiv(x, d) == Sign(x) * ((x * Sign(x)) \div d)
TruncMod(x, d) == Sign(x) * ((x * Sign(x)) % d)

\* relativedelta._set_months
SetMonths(months) ==
    [years |-> TruncDiv(months, 12), months |-> TruncMod(months, 12)]

\* dt2 + relativedelta(years, months): the day is clipped to the month's end
AddMonths(dt, ym) ==
    LET m0 == dt.month + ym.months
        year == dt.year + ym.years
                  + (IF m0 > 12 THEN 1 ELSE IF m0 < 1 THEN -1 ELSE 0)
        month == IF m0 > 12 THEN m0 - 12 ELSE IF m0 < 1 THEN m0 + 12 ELSE m0
        day == IF dt.day < DaysInMonth(year, month)
               THEN dt.day ELSE DaysInMonth(year, month)
    IN  [dt EXCEPT !.year = year, !.month = month, !.day = day]

\* the loop that takes back a month while the month delta overshoots dt1
RECURSIVE AdjustMonths(_, _, _)
AdjustMonths(dt1, dt2, months) ==
    LET dtm == AddMonths(dt2, SetMonths(months))
        over == IF Before(dt1, dt2) THEN Before(dtm, dt1) ELSE Before(dt1, dtm)
        increment == IF Before(dt1, dt2) THEN 1 ELSE -1
    IN  IF over THEN AdjustMonths(dt1, dt2, months + increment) ELSE months

relativedelta(dt1, dt2) ==
    LET total_months ==
            AdjustMonths(dt1, dt2,
                (dt1.year - dt2.year) * 12 + (dt1.month - dt2.month))
        ym == SetMonths(total_months)
        dtm == AddMonths(dt2, ym)
        delta == ToSeconds(dt1) - ToSeconds(dtm)
    IN  [years |-> ym.years, months |-> ym.months,
         days |-> TruncDiv(delta, 86400),
         hours |-> TruncDiv(TruncMod(delta, 86400), 3600),
         minutes |-> TruncDiv(TruncMod(delta, 3600), 60),
         seconds |-> TruncMod(delta, 60)]

----------------------------------------------------------------------------
(* parse_available_times.  The HTML it is given is the sequence of its     *)
(* table.timetable elements, each [name, cells]: name is the text of the   *)
(* strong#sectionName element (NoElement when select_one finds none) and   *)
(* cells the data-fromdatetime attribute of each timeTableCell div in      *)
(* document order: [has, value], has FALSE when the attribute is absent    *)
(* and attrs.get gives None.  What is printed is a sequence of lines; the  *)
(* elapsed seconds of the summary are left out.                            *)

NoElement == "NoElement"

\* first['available'] of line 55: no datetime yet
NoDate == [year |-> 0, month |-> 0, day |-> 0, hour |-> 0, minute |-> 0,
           second |-> 0]

\* time_slots[0][:-3]
Trim3(raw) == SubSeq(raw, 1, Len(raw) - 3)

HeaderLines == <<[kind |-> "header"], [kind |-> "rule"]>>

\* line 87
RowLine(place, available, first_raw) ==
    [kind |-> "row", place |-> place, available |-> available,
     first |-> first_raw]

\* line 89
NoTimesLine(region) == [kind |-> "none", region |-> region]

\* lines 91-95
SummaryLine(total, region) ==
    [kind |-> "summary", available |-> total.available,
     places |-> total.places, region |-> region]

\* line 117
FirstLine(icon, until_text, place) ==
    [kind |-> "first", icon |-> icon, text |-> until_text, place |-> place]

\* line 54 and line 55
InitTotal(tables) == [available |-> 0, places |-> Len(tables)]
InitFirst == [available |-> NoDate, place |-> None]

\* a variant of line 74 that counts the office, not its slots
AddAvailable_PerOffice(total, n) ==
    [total EXCEPT !.available = total.available + 1]

\* line 74
AddAvailable(total, n) ==
    [total EXCEPT !.available = total.available + n]

\* a variant of lines 81-84 with <= in place of <
IsNewFirst_OrEqual(first, first_date) ==
    first.available = NoDate \/ ~Before(first.available, first_date)

\* lines 81-84
IsNewFirst(first, first_date) ==
    first.available = NoDate \/ Before(first_date, first.available)

\* lines 74-87 for a table with slots, once its first slot is parsed
\* (first_date is strptime's outcome)
table_row(st, place, available, first_raw, first_date) ==
    IF first_date.exc # None
    THEN [st EXCEPT !.exc = first_date.exc,
                    !.total = AddAvailable(st.total, available)]
    ELSE [total |-> AddAvailable(st.total, available),
          first |-> IF IsNewFirst(st.first, first_date.value)
                    THEN [available |-> first_date.value, place |-> place]
                    ELSE st.first,
          lines |-> Append(st.lines, RowLine(place, available, first_raw)),
          exc |-> None]

\* lines 62-87: the body of the for loop for one table.  st is
\* [total, first, lines, exc]; exc is the class of the exception raised
table_body(st, table) ==
    IF table.name = NoElement
    THEN [st EXCEPT !.exc = "AttributeError"]
    ELSE IF Len(table.cells) < 1
    THEN st
    ELSE IF ~table.cells[1].has
    THEN [st EXCEPT !.exc = "TypeError",
                    !.total = AddAvailable(st.total, Len(table.cells))]
    ELSE table_row(st, table.name, Len(table.cells),
                   Trim3(table.cells[1].value),
                   strptime(Trim3(table.cells[1].value)))

\* the for loop of line 61 from table i on; an exception ends it
RECURSIVE tables_loop(_, _, _)
tables_loop(tables, i, st) ==
    IF i > Len(tables) \/ st.exc # None THEN st
    ELSE tables_loop(tables, i + 1, table_body(st, tables[i]))

\* lines 100-117, given diff and the list human_readable made of it
first_line(diff, until_text, place) ==
    IF until_text.exc # None
    THEN [exc |-> until_text.exc, lines |-> <<>>]
    ELSE [exc |-> None,
          lines |-> <<FirstLine(Icon(diff), until_text.text, place)>>]

\* lines 97-117
first_report(first, nowv) ==
    first_line(relativedelta(first.available, nowv),
               UntilText(human_readable(relativedelta(first.available, nowv))),
               first.place)

\* lines 91-119, st being the state after the tables; rep is first_report's
\* outcome, used when there is a first slot
report_end(st, region, rep) ==
    IF st.exc # None THEN st
    ELSE IF st.first.available = NoDate
    THEN [st EXCEPT !.lines = st.lines \o
                       <<SummaryLine(st.total, region), [kind |-> "blank"]>>]
    ELSE IF rep.exc # None
    THEN [st EXCEPT !.lines = Append(st.lines, SummaryLine(st.total, region)),
                    !.exc = rep.exc]
    ELSE [st EXCEPT !.lines = st.lines \o <<SummaryLine(st.total, region)>>
                                 \o rep.lines \o <<[kind |-> "blank"]>>]

\* lines 54-89: the state after the tables
tables_report(region, tables) ==
    IF Len(tables) > 0
    THEN tables_loop(tables, 1,
             [total |-> InitTotal(tables), first |-> InitFirst,
              lines |-> HeaderLines, exc |-> None])
    ELSE [total |-> InitTotal(tables), first |-> InitFirst,
          lines |-> <<NoTimesLine(region)>>, exc |-> None]

report_tail(st, region, nowv) ==
    report_end(st, region,
               IF st.exc = None /\ st.first.available # NoDate
               THEN first_report(st.first, nowv)
               ELSE [exc |-> None, lines |-> <<>>])

\* The whole call: [exc, lines, total, first].  exc is None when the call
\* returns, else the class of the exception that leaves it.
parse_available_times(region, tables, nowv) ==
    report_tail(tables_report(region, tables), region, nowv)

----------------------------------------------------------------------------
(* Exceptions.  A raised exception is [cls, label, errors, status]: the    *)
(* class, and what its message carries.                                    *)

NoExc == [cls |-> None, label |-> None, errors |-> <<>>, status |-> 0]

\* session.get / session.post raising: no response arrived
NetworkError ==
    [cls |-> "ConnectionError", label |-> None, errors |-> <<>>, status |-> 0]

\* what response.raise_for_status() raises
StatusError(status_code) ==
    [cls |-> "HTTPError", label |-> None, errors |-> <<>>,
     status |-> status_code]

\* lines 145-147: HTTPError(f'"{label}" failed: {errors}')
StepFailed(label, errors) ==
    [cls |-> "HTTPError", label |-> label, errors |-> errors, status |-> 0]

\* an exception of parse_available_times, by class
ParseFailure(cls) ==
    [cls |-> cls, label |-> None, errors |-> <<>>, status |-> 0]

\* except requests.exceptions.RequestException, line 239
IsRequestException(e) == e.cls \in {"HTTPError", "ConnectionError"}

\* response.raise_for_status() raises for a 4xx or 5xx status only
RaisesForStatus(status_code) == status_code >= 400 /\ status_code < 600

----------------------------------------------------------------------------
(* do_post.  reply is what session.post gives: [neterr, status_code,       *)
(* history, errors, tables]; neterr TRUE when the call raises, history the *)
(* status codes of response.history, errors the text of the                *)
(* .validation-summary-errors items of the body and tables its timetables. *)
(* The outcome is [exc, text]: exc.cls is None when do_post returns text.  *)

Returned(text) == [exc |-> NoExc, text |-> text]
Raised(e) == [exc |-> e, text |-> <<>>]

\* line 139
StepAdvanced(history) ==
    Len(history) = 1 /\ history[Len(history)] = 302

\* a variant of do_post without the check of line 139
do_post_NoHistoryCheck(reply, label) ==
    IF reply.neterr THEN Raised(NetworkError)
    ELSE IF reply.status_code # 200 /\ RaisesForStatus(reply.status_code)
    THEN Raised(StatusError(reply.status_code))
    ELSE Returned(reply.tables)

\* lines 122-149; main gives every call its label, so the default of line
\* 137 is never taken
do_post(reply, label) ==
    IF reply.neterr THEN Raised(NetworkError)
    ELSE IF reply.status_code # 200 /\ RaisesForStatus(reply.status_code)
    THEN Raised(StatusError(reply.status_code))
    ELSE IF ~StepAdvanced(reply.history)
    THEN Raised(StepFailed(label, reply.errors))
    ELSE Returned(reply.tables)

----------------------------------------------------------------------------
(* Inputs.                                                                 *)

MaxTables == 3

\* data-fromdatetime values: two slots as the site writes them, and one
\* in another format
Raw_0315 == <<"2", "0", "2", "5", "-", "0", "3", "-", "1", "5", " ",
              "0", "9", ":", "3", "0", ":", "0", "0">>
Raw_0416 == <<"2", "0", "2", "5", "-", "0", "4", "-", "1", "6", " ",
              "1", "0", ":", "0", "0", ":", "0", "0">>
Raw_Iso == <<"2", "0", "2", "5", "-", "0", "3", "-", "1", "5", "T",
             "0", "9", ":", "3", "0", ":", "0", "0">>

ValidRaws == {Raw_0315, Raw_0416}

Slot(raw) == [has |-> TRUE, value |-> raw]
NoAttr == [has |-> FALSE, value |-> <<>>]

CellLists ==
    { <<>>,
      <<Slot(Raw_0315), Slot(Raw_0416)>>,
      <<Slot(Raw_0416), NoAttr, Slot(Raw_0315)>>,
      <<NoAttr>>,
      <<Slot(Raw_Iso), Slot(Raw_0315)>> }

Names == {"Sundsvall", "Solleftea", NoElement}

Tables == [name : Names, cells : CellLists]

Pages == UNION {[1..n -> Tables] : n \in 0..MaxTables}

DateTime(y, mo, d, h, mi, sec) ==
    [year |-> y, month |-> mo, day |-> d, hour |-> h, minute |-> mi,
     second |-> sec]

\* values of datetime.now(): from a year before the first slot to three
\* days after it
Nows ==
    { DateTime(2024, 3, 15, 9, 30, 0),
      DateTime(2025, 1, 10, 0, 0, 0),
      DateTime(2025, 3, 14, 12, 0, 30),
      DateTime(2025, 3, 18, 10, 0, 0) }

\* pages the search step of main answers with
MainPages ==
    { <<>>,
      <<[name |-> "Sundsvall", cells |-> <<Slot(Raw_0416)>>],
        [name |-> "Solleftea", cells |-> <<Slot(Raw_0315), Slot(Raw_0416)>>]>>,
      <<[name |-> NoElement, cells |-> <<Slot(Raw_0315)>>]>>,
      <<[name |-> "Sundsvall", cells |-> <<Slot(Raw_Iso)>>]>> }

MainNows == {DateTime(2025, 1, 10, 0, 0, 0), DateTime(2025, 3, 14, 12, 0, 30)}

StatusCodes == {200, 204, 404, 500}
Histories == {<<>>, <<302>>, <<301>>, <<302, 302>>}
ErrorLists == {<<>>, <<"Felaktigt val">>}

NetworkDown ==
    [neterr |-> TRUE, status_code |-> 0, history |-> <<>>, errors |-> <<>>,
     tables |-> <<>>]

GetReplies ==
    {NetworkDown} \cup
    [neterr : {FALSE}, status_code : StatusCodes, history : {<<>>},
     errors : {<<>>}, tables : {<<>>}]

PostReplies ==
    {NetworkDown} \cup
    [neterr : {FALSE}, status_code : StatusCodes, history : Histories,
     errors : ErrorLists, tables : MainPages]

----------------------------------------------------------------------------
(* main                                                                    *)

\* lines 155-159
regions ==
    <<[name |-> "vasternorrland", service_group_id |-> "14"],
      [name |-> "gavleborg", service_group_id |-> "19"],
      [name |-> "jamtland", service_group_id |-> "18"]>>

\* the label of each do_post of lines 174-236, in order
Labels == <<"Boka ny tid", "Godkänn villkor", "Bor i Sverige",
            "Första lediga tid">>

NoCall == [label |-> None, status_code |-> 0, history |-> <<>>,
           errors |-> <<>>, outcome |-> None, exc |-> NoExc]
NotCalled == [exc |-> "NotCalled", lines |-> <<>>,
              total |-> [available |-> 0, places |-> 0],
              first |-> InitFirst]

GetRequest(region, session) ==
    [method |-> "GET", region |-> region, label |-> "Index",
     session |-> session]

PostRequest(region, session, label) ==
    [method |-> "POST", region |-> region, label |-> label,
     session |-> session]

\* line 153, line 241 and line 244
StartLine == [kind |-> "start"]
FailedLine(region, e) == [kind |-> "failed", region |-> region, error |-> e]
FinishLine == [kind |-> "finish", regions |-> Len(regions)]

\* a variant that closes the session only when the block ends normally
SessionsAfterExit_OnSuccessOnly(opened, id, e) ==
    IF e.cls = None THEN opened \ {id} ELSE opened

\* Session.__exit__ at the end of the with block of line 165, which runs
\* whether the block ends normally (e = NoExc) or by the exception e
SessionsAfterExit(opened, id, e) == opened \ {id}

\* An exception e leaves the with block: the session is closed, and line
\* 239 catches e when it is a RequestException; any other leaves main.
Unwind(e, printed) ==
    /\ open' = SessionsAfterExit(open, client, e)
    /\ client' = 0
    /\ IF IsRequestException(e)
       THEN /\ out' = Append(printed, FailedLine(regions[ri].name, e))
            /\ ri' = ri + 1
            /\ pc' = "loop"
            /\ escaped' = escaped
       ELSE /\ out' = printed
            /\ ri' = ri
            /\ pc' = "crashed"
            /\ escaped' = e.cls

InitMain ==
    /\ pc = "start" /\ ri = 1 /\ step = 1 /\ client = 0 /\ nsess = 0
    /\ open = {} /\ reqs = <<>> /\ call = NoCall /\ result = <<>>
    /\ out = <<>> /\ escaped = None /\ ret = None

Init == InitMain /\ html = <<>> /\ now = NoDate /\ parsed = NotCalled

\* line 153
Start ==
    /\ pc = "start"
    /\ pc' = "loop"
    /\ out' = Append(out, StartLine)
    /\ UNCHANGED <<ri, step, client, nsess, open, reqs, call, result,
                   escaped, ret, html, now, parsed>>

\* lines 163-165: the next region, with a new session
EnterRegion ==
    /\ pc = "loop" /\ ri <= Len(regions)
    /\ nsess' = nsess + 1
    /\ client' = nsess + 1
    /\ open' = open \cup {nsess + 1}
    /\ step' = 1
    /\ call' = NoCall
    /\ pc' = "get"
    /\ UNCHANGED <<ri, reqs, result, out, escaped, ret, html, now, parsed>>

\* lines 167-172: the index GET
Get ==
    /\ pc = "get"
    /\ \E reply \in GetReplies :
         /\ reqs' = Append(reqs, GetRequest(regions[ri].name, client))
         /\ IF reply.neterr
            THEN Unwind(NetworkError, out)
            ELSE IF reply.status_code # 200 /\ RaisesForStatus(reply.status_code)
            THEN Unwind(StatusError(reply.status_code), out)
            ELSE /\ pc' = "post"
                 /\ UNCHANGED <<ri, client, open, out, escaped>>
    /\ UNCHANGED <<step, nsess, call, result, ret, html, now, parsed>>

\* lines 174-236: the do_post of the current step
Post ==
    /\ pc = "post"
    /\ \E reply \in PostReplies :
         LET r == do_post(reply, Labels[step])
         IN  /\ reqs' = Append(reqs,
                          PostRequest(regions[ri].name, client, Labels[step]))
             /\ call' = [label |-> Labels[step],
                         status_code |-> reply.status_code,
                         history |-> reply.history,
                         errors |-> reply.errors,
                         exc |-> r.exc,
                         outcome |-> IF reply.neterr THEN "neterr"
                                     ELSE IF r.exc.cls = None THEN "returned"
                                     ELSE "raised"]
             /\ IF r.exc.cls # None
                THEN /\ Unwind(r.exc, out)
                     /\ UNCHANGED <<step, result>>
                ELSE /\ IF step < Len(Labels)
                        THEN /\ step' = step + 1 /\ pc' = "post"
                             /\ result' = result
                        ELSE /\ step' = step /\ pc' = "parse"
                             /\ result' = r.text
                     /\ UNCHANGED <<ri, client, open, out, escaped>>
    /\ UNCHANGED <<nsess, ret, html, now, parsed>>

\* line 238, and the end of the with block when the call returns
Parse ==
    /\ pc = "parse"
    /\ \E nowv \in MainNows :
         LET r == parse_available_times(regions[ri].name, result, nowv)
         IN  /\ html' = result
             /\ now' = nowv
             /\ parsed' = r
             /\ IF r.exc # None
                THEN Unwind(ParseFailure(r.exc), out \o r.lines)
                ELSE /\ out' = out \o r.lines
                     /\ open' = SessionsAfterExit(open, client, NoExc)
                     /\ client' = 0
                     /\ ri' = ri + 1
                     /\ pc' = "loop"
                     /\ escaped' = escaped
    /\ UNCHANGED <<step, nsess, reqs, call, result, ret>>

\* lines 243-246
Finish ==
    /\ pc = "loop" /\ ri > Len(regions)
    /\ out' = Append(out, FinishLine)
    /\ ret' = 0
    /\ pc' = "done"
    /\ UNCHANGED <<ri, step, client, nsess, open, reqs, call, result,
                   escaped, html, now, parsed>>

Next == Start \/ EnterRegion \/ Get \/ Post \/ Parse \/ Finish

Spec == Init /\ [][Next]_vars

----------------------------------------------------------------------------
(* parse_available_times called on its own, on every page of Pages.        *)

ParseRegion == regions[1].name

InitParse == InitMain /\ html \in Pages /\ now = NoDate /\ parsed = NotCalled

ParseCall ==
    /\ parsed.exc = "NotCalled"
    /\ \E nowv \in Nows :
         /\ now' = nowv
         /\ parsed' = parse_available_times(ParseRegion, html, nowv)
    /\ UNCHANGED <<pc, ri, step, client, nsess, open, reqs, call, result,
                   out, escaped, ret, html>>

NextParse == ParseCall

SpecParse == InitParse /\ [][NextParse]_vars

----------------------------------------------------------------------------
(* What the properties read off a state.                                   *)

RegionNames == {regions[i].name : i \in 1..Len(regions)}

IsPrefix(a, b) == Len(a) <= Len(b) /\ a = SubSeq(b, 1, Len(a))

LabelsOf(seq) == [i \in 1..Len(seq) |-> seq[i].label]
RegionsOf(seq) == [i \in 1..Len(seq) |-> seq[i].region]

ReqsOf(rn) == SelectSeq(reqs, LAMBDA q : q.region = rn)
GetsOf(rn) == SelectSeq(reqs, LAMBDA q : q.region = rn /\ q.method = "GET")
PostsOf(rn) == SelectSeq(reqs, LAMBDA q : q.region = rn /\ q.method = "POST")
AllGets == SelectSeq(reqs, LAMBDA q : q.method = "GET")

\* main is over: it returned, or an exception left it
MainEnded == pc \in {"done", "crashed"}

\* the region's walk raised and line 241 reported it
WalkFailed(rn) ==
    \E i \in 1..Len(out) : out[i].kind = "failed" /\ out[i].region = rn

\* the region's four do_post calls all returned
WalkSucceeded(rn) == Len(PostsOf(rn)) = Len(Labels) /\ ~WalkFailed(rn)

\* the region's report is printed to its end: the summary line, the
\* earliest-slot sentence when there is one, and the closing empty line
ReportPrinted(rn) ==
    \E i \in 1..Len(out) :
        /\ out[i].kind = "summary" /\ out[i].region = rn
        /\ \/ i + 1 <= Len(out) /\ out[i + 1].kind = "blank"
           \/ /\ i + 2 <= Len(out) /\ out[i + 1].kind = "first"
              /\ out[i + 2].kind = "blank"

\* a line of the region's report is printed
ReportStarted(rn) ==
    \E i \in 1..Len(out) :
        out[i].kind \in {"summary", "none"} /\ out[i].region = rn

----------------------------------------------------------------------------
(* C1: when main is over, for every region A whose walk raised a request   *)
(* error and every later region B, the index GET of B was issued and, if   *)
(* B's four steps succeeded, B's report is printed to its end.             *)
C1_IsolatedRegions ==
    MainEnded =>
        \A a \in 1..Len(regions) : \A b \in (a + 1)..Len(regions) :
            WalkFailed(regions[a].name) =>
                /\ Len(GetsOf(regions[b].name)) >= 1
                /\ WalkSucceeded(regions[b].name)
                       => ReportPrinted(regions[b].name)

(* C2: no exception leaves main: when main is over it has returned 0,     *)
(* every configured region got its index GET, and the overall summary is   *)
(* the last line printed.                                                  *)
C2_AllFailuresContained ==
    /\ pc # "crashed" /\ escaped = None
    /\ MainEnded =>
          /\ ret = 0
          /\ \A rn \in RegionNames : Len(GetsOf(rn)) >= 1
          /\ out[Len(out)] = FinishLine

(* C3: a do_post call that got a response returns the body exactly when    *)
(* the final status is 200 and the history is one entry of status 302,     *)
(* and raises otherwise.                                                   *)
C3_ReturnsIffAdvanced ==
    call.outcome \in {"returned", "raised"} =>
        (call.outcome = "returned" <=>
            /\ call.status_code = 200
            /\ Len(call.history) = 1
            /\ call.history[1] = 302)

\* C4, the parts about order: the POSTs of a region are a prefix of the
\* four labels in order, and after a do_post that raised nothing more is
\* posted for the region and its report is not started.
C4_OrderAndAbort ==
    /\ \A rn \in RegionNames : IsPrefix(LabelsOf(PostsOf(rn)), Labels)
    /\ call.outcome \in {"raised", "neterr"} =>
          /\ pc \notin {"post", "parse"}
          /\ reqs[Len(reqs)].method = "POST"
          /\ reqs[Len(reqs)].label = call.label
          /\ ~ReportStarted(reqs[Len(reqs)].region)
    /\ \A rn \in RegionNames :
          ReportStarted(rn) => Len(PostsOf(rn)) = Len(Labels)

(* C4 as stated: the POSTs of a region go in the order of the four labels, *)
(* a raising step ends the region's walk before any later POST and before  *)
(* parse_available_times, and every step whose response has no redirect    *)
(* raises the error that carries the step's label and the scraped errors.  *)
C4_ZeroRedirectsCarryLabel ==
    /\ C4_OrderAndAbort
    /\ (call.outcome \in {"returned", "raised"} /\ call.history = <<>>) =>
          /\ call.outcome = "raised"
          /\ call.exc = StepFailed(call.label, call.errors)

(* C4 amended: as above, but the labelled error is raised for a response   *)
(* without redirect whose status is not 4xx or 5xx; a response with a 4xx  *)
(* or 5xx status raises the status error of raise_for_status, which has    *)
(* neither the label nor the scraped errors.                               *)
C4_StepFailureAborts ==
    /\ C4_OrderAndAbort
    /\ (call.outcome \in {"returned", "raised"} /\ call.history = <<>>) =>
          /\ call.outcome = "raised"
          /\ call.exc = IF RaisesForStatus(call.status_code)
                        THEN StatusError(call.status_code)
                        ELSE StepFailed(call.label, call.errors)

\* C4, witness: the third step answered 200 without redirect and with a validation
\* error: the labelled error is raised and the walk of the region is over
C4_Witness ==
    /\ call.label = Labels[3] /\ call.status_code = 200
    /\ call.history = <<>> /\ call.errors # <<>>
    /\ call.exc = StepFailed(Labels[3], call.errors)
    /\ pc = "loop" /\ client = 0
    /\ Len(PostsOf(reqs[Len(reqs)].region)) = 3

(* C5: at most one session is open at a time; it is open exactly while a   *)
(* region's with block runs and is that region's own; every request of a   *)
(* region uses the region's session and no other region's; no session is   *)
(* open between regions or once main is over, however the block ended.     *)
C5_SessionPerRegion ==
    /\ Cardinality(open) <= 1
    /\ IF pc \in {"get", "post", "parse"}
       THEN open = {client} /\ client = nsess /\ client = ri
       ELSE open = {} /\ client = 0
    /\ \A i \in 1..Len(reqs) :
          /\ reqs[i].session \in 1..nsess
          /\ regions[reqs[i].session].name = reqs[i].region

\* C5, witness: an exception left the with block of the second region and
\* main; both sessions were used for requests and both are closed
C5_Witness ==
    /\ pc = "crashed" /\ nsess = 2 /\ open = {}
    /\ Len(PostsOf(regions[2].name)) = Len(Labels)
    /\ WalkFailed(regions[1].name)

(* C8: requests are never repeated: the index GETs go through the regions  *)
(* in configured order, each region's requests are one GET followed by a   *)
(* prefix of the four POSTs, nothing is requested for a region after its   *)
(* failure was reported, and when main is over every configured region has *)
(* had exactly one index GET.                                              *)
C8_EachRegionOnce ==
    /\ IsPrefix(RegionsOf(AllGets), [i \in 1..Len(regions) |-> regions[i].name])
    /\ RegionsOf(reqs) =
          [i \in 1..Len(reqs) |-> regions[reqs[i].session].name]
    /\ \A rn \in RegionNames :
          /\ Len(GetsOf(rn)) <= 1
          /\ IsPrefix(LabelsOf(ReqsOf(rn)), <<"Index">> \o Labels)
    /\ \A i \in 1..Len(reqs) : \A j \in i..Len(reqs) :
          reqs[i].session <= reqs[j].session
    /\ MainEnded => \A rn \in RegionNames : Len(GetsOf(rn)) = 1

(* C10: when parse_available_times has gone through the tables and found   *)
(* an earliest slot, it prints the earliest-slot sentence and returns, the *)
(* region's report is complete and main is not left by an exception.       *)
C10_EarliestSentenceAlways ==
    (parsed.exc \notin {"NotCalled", "AttributeError", "TypeError",
                         "ValueError"}
         /\ parsed.first.available # NoDate) =>
        /\ parsed.exc = None
        /\ \E i \in 1..Len(parsed.lines) : parsed.lines[i].kind = "first"
        /\ pc # "crashed"

----------------------------------------------------------------------------
(* Properties of parse_available_times on its own (SpecParse).             *)

\* number of slot cells of a page
RECURSIVE TotalCells(_)
TotalCells(tables) ==
    IF Len(tables) = 0 THEN 0
    ELSE Len(Head(tables).cells) + TotalCells(Tail(tables))

\* every office has its name and, when it has slots, a first slot in the
\* site's datetime format
WellFormed(tables) ==
    \A i \in 1..Len(tables) :
        /\ tables[i].name # NoElement
        /\ Len(tables[i].cells) >= 1 =>
              /\ tables[i].cells[1].has
              /\ tables[i].cells[1].value \in ValidRaws

SummaryLines(lines) == {i \in 1..Len(lines) : lines[i].kind = "summary"}

\* the call went through all the tables: it returned, or failed after them
LoopDone(p) == p.exc \in {None, "IndexError"}

(* C6: the summary line carries the number of slot cells of the page as    *)
(* the slot count and the number of tables as the office count; a          *)
(* well-formed page always gets exactly one summary line.                  *)
C6_SummaryCounts ==
    parsed.exc # "NotCalled" =>
        /\ \A i \in SummaryLines(parsed.lines) :
              /\ parsed.lines[i].available = TotalCells(html)
              /\ parsed.lines[i].places = Len(html)
        /\ WellFormed(html) => Cardinality(SummaryLines(parsed.lines)) = 1
        /\ LoopDone(parsed) <=> Cardinality(SummaryLines(parsed.lines)) = 1

\* C6, witness: three offices, one of them without slots, four slots in all
C6_Witness ==
    /\ parsed.exc = None /\ Len(html) = 3 /\ TotalCells(html) = 4
    /\ \E i \in 1..3 : Len(html[i].cells) = 0
    /\ \E i \in SummaryLines(parsed.lines) :
          parsed.lines[i].available = 4 /\ parsed.lines[i].places = 3

\* offices with at least one slot, and the first slot of such an office
WithSlots(tables) == {i \in 1..Len(tables) : Len(tables[i].cells) >= 1}
FirstSlot(table) == strptime(Trim3(table.cells[1].value)).value

\* offices whose first slot no other office's first slot is before
Earliest(tables) ==
    {i \in WithSlots(tables) :
        \A j \in WithSlots(tables) :
            ~Before(FirstSlot(tables[j]), FirstSlot(tables[i]))}

Permuted(tables, f) == [i \in 1..Len(tables) |-> tables[f[i]]]

FirstOf(tables) == tables_report(ParseRegion, tables).first

\* the earliest slot chosen has the minimum timestamp, of an office that
\* has it
ChoosesMinimum ==
    IF WithSlots(html) = {} THEN parsed.first = InitFirst
    ELSE \E i \in Earliest(html) :
            /\ parsed.first.available = FirstSlot(html[i])
            /\ parsed.first.place = html[i].name

(* C7 as stated: the earliest slot chosen, timestamp and office name, is  *)
(* the minimum over the offices' first slots and is the same for every     *)
(* order of the tables.                                                    *)
C7_SameForEveryOrder ==
    LoopDone(parsed) =>
        /\ ChoosesMinimum
        /\ \A f \in Permutations(1..Len(html)) :
              FirstOf(Permuted(html, f)) = parsed.first

(* C7 amended: the timestamp chosen is the minimum over the offices'      *)
(* first slots and is the same for every order of the tables; the office   *)
(* chosen is the first table in document order that has this timestamp, so *)
(* it is the same for every order when all the tables that have the        *)
(* minimum carry one name.                                                 *)
C7_MinimumFirstInOrder ==
    LoopDone(parsed) =>
        /\ ChoosesMinimum
        /\ WithSlots(html) # {} =>
              \E i \in Earliest(html) :
                  /\ \A j \in Earliest(html) : i <= j
                  /\ parsed.first.place = html[i].name
        /\ \A f \in Permutations(1..Len(html)) :
              /\ FirstOf(Permuted(html, f)).available = parsed.first.available
              /\ Cardinality({html[i].name : i \in Earliest(html)}) <= 1
                    => FirstOf(Permuted(html, f)) = parsed.first

\* C7, witness: the second and the third office share the earliest first
\* slot, the first office has a later one: the second office is chosen
C7_Witness ==
    /\ LoopDone(parsed) /\ Len(html) = 3 /\ Earliest(html) = {2, 3}
    /\ WithSlots(html) = {1, 2, 3}
    /\ html[2].name # html[3].name
    /\ parsed.first.place = html[2].name

\* the text the components of diff give when a value of 1 takes the
\* singular noun and every other value the plural
ClaimedPart(attr, value) ==
    IF value = 0 THEN <<>>
    ELSE <<ToString(value) \o " " \o
             attrs_sv[IF value = 1 THEN Singular(attr) ELSE attr]>>

ClaimedParts(diff) ==
    ClaimedPart("years", diff.years) \o ClaimedPart("months", diff.months)
        \o ClaimedPart("days", diff.days)

ClaimedText(parts) ==
    IF Len(parts) > 1
    THEN Join(DropLast(parts)) \o " och " \o parts[Len(parts)]
    ELSE parts[1]

(* C9: the earliest-slot sentence carries the nonzero components of the    *)
(* delta between the slot and now in the order years, months, days, each   *)
(* with the singular noun for the value 1 and the plural noun otherwise,   *)
(* joined by ', ' and a final ' och '.                                     *)
C9_RelativeDurationText ==
    (parsed.exc = None /\ parsed.first.available # NoDate) =>
        \E i \in 1..Len(parsed.lines) :
            /\ parsed.lines[i].kind = "first"
            /\ parsed.lines[i].text =
                  ClaimedText(ClaimedParts(
                      relativedelta(parsed.first.available, now)))

====
